---- MODULE Spec2Model ----
(***************************************************************************)
(* EV route planner (finaldaaproject.py): the city graph, dijkstra,        *)
(* calculate_path's charging simulation and the find_route handler behind  *)
(* the "Find Optimal Route" button.                                        *)
(*                                                                         *)
(* Numbers.  Python floats are modelled as exact decimals.  An energy      *)
(* amount (battery capacity, remaining battery) is an integer number of    *)
(* 1/Scale units, a charging price is an integer number of tenths of a     *)
(* rupee, and a cost is energy * price, so it counts 1/(10*Scale) rupees.  *)
(* Road distances are integers, as in the edge list.                       *)
(***************************************************************************)
EXTENDS Integers, Sequences, FiniteSets, TLC

\* ---- bounds ----
MaxLen == 3          \* characters the battery entry can hold
MaxEdges == 4        \* roads of a drawn graph
MaxDist == 3         \* largest road distance of a drawn graph

FracDigits == MaxLen - 1
Scale == 10 ^ FracDigits

\* ---- EV City Map and Graph Setup ----
edges ==
  << <<"Mumbai", "Nashik", 180>>,
     <<"Mumbai", "Goa", 580>>,
     <<"Nashik", "Pune", 300>>,
     <<"Pune", "Satara", 120>>,
     <<"Satara", "Kolhapur", 180>>,
     <<"Kolhapur", "Goa", 200>>,
     <<"Goa", "Hyderabad", 610>>,
     <<"Hyderabad", "Kolhapur", 300>> >>

\* nx.Graph.add_edge(u, v, distance=dist): both end points become nodes and
\* the distance is stored in both adjacency maps (a second add overwrites).
Adj(g, n) == IF n \in DOMAIN g THEN g[n] ELSE <<>>

add_edge(g, u, v, dist) ==
  [n \in (DOMAIN g) \cup {u, v} |->
     IF n = u /\ n = v THEN [m \in (DOMAIN Adj(g, n)) \cup {n} |-> dist]
     ELSE IF n = u
       THEN [m \in (DOMAIN Adj(g, n)) \cup {v} |-> IF m = v THEN dist ELSE Adj(g, n)[m]]
     ELSE IF n = v
       THEN [m \in (DOMAIN Adj(g, n)) \cup {u} |-> IF m = u THEN dist ELSE Adj(g, n)[m]]
     ELSE g[n]]

RECURSIVE BuildGraph(_, _)
BuildGraph(es, k) ==
  IF k = 0 THEN <<>>
  ELSE add_edge(BuildGraph(es, k - 1), es[k][1], es[k][2], es[k][3])

Dataset == BuildGraph(edges, Len(edges))

\* Charging prices per unit, in tenths of a rupee.
charging_prices ==
  [c \in {"Mumbai", "Nashik", "Pune", "Satara", "Kolhapur", "Goa", "Hyderabad"} |->
     CASE c = "Mumbai" -> 18
       [] c = "Nashik" -> 15
       [] c = "Pune" -> 12
       [] c = "Satara" -> 15
       [] c = "Kolhapur" -> 18
       [] c = "Goa" -> 20
       [] c = "Hyderabad" -> 22]

\* list(G.nodes)
Nodes(g) == DOMAIN g

\* ---- Python orderings used by heapq on (cost, node, path) tuples ----
\* str < str on the city names (and the empty string of an unset StringVar)
CityOrder ==
  <<"", "Goa", "Hyderabad", "Kolhapur", "Mumbai", "Nashik", "Pune", "Satara">>

Rank(c) == CHOOSE k \in 1..Len(CityOrder) : CityOrder[k] = c

StrLess(a, b) == Rank(a) < Rank(b)

\* list < list: the first differing element decides, a proper prefix is smaller
ListLess(p, q) ==
  \/ \E k \in 1..Len(p) :
       /\ k <= Len(q)
       /\ \A j \in 1..(k - 1) : p[j] = q[j]
       /\ StrLess(p[k], q[k])
  \/ /\ Len(p) < Len(q)
     /\ \A j \in 1..Len(p) : p[j] = q[j]

\* the heap entries ordered as if they were (node, cost, path)
TupleLess_node_first(a, b) ==
  \/ StrLess(a[2], b[2])
  \/ a[2] = b[2] /\ a[1] < b[1]
  \/ a[2] = b[2] /\ a[1] = b[1] /\ ListLess(a[3], b[3])

\* tuple < tuple on (cost, node, path)
TupleLess(a, b) ==
  \/ a[1] < b[1]
  \/ a[1] = b[1] /\ StrLess(a[2], b[2])
  \/ a[1] = b[1] /\ a[2] = b[2] /\ ListLess(a[3], b[3])

\* heapq.heappop: the smallest entry of the heap
heappop(heap) == CHOOSE t \in heap : \A u \in heap \ {t} : TupleLess(t, u)

\* ---- float(battery_entry.get()) ----
Digits == {"0", "1", "4"}
\* "x" stands for any character float() does not accept.  Texts float() also
\* takes but these keys cannot spell (blanks around the number, "+", an
\* exponent, "_" between digits, "inf", "nan") are not typed here.
Alphabet == Digits \cup {"-", ".", "x"}

DigitVal(ch) == CASE ch = "0" -> 0 [] ch = "1" -> 1 [] ch = "4" -> 4

Unsigned(s) == IF s # <<>> /\ s[1] = "-" THEN Tail(s) ELSE s

Dots(s) == {k \in 1..Len(s) : s[k] = "."}

\* [sign] (digits [. [digits]] | . digits)
IsFloatText(s) ==
  LET b == Unsigned(s) IN
    /\ \A k \in 1..Len(b) : b[k] \in Digits \cup {"."}
    /\ Cardinality(Dots(b)) <= 1
    /\ \E k \in 1..Len(b) : b[k] \in Digits

RECURSIVE DigitsValue(_)
DigitsValue(s) ==
  IF s = <<>> THEN 0
  ELSE DigitsValue(SubSeq(s, 1, Len(s) - 1)) * 10 + DigitVal(s[Len(s)])

\* the value of an accepted text, in 1/Scale units
ParseFloat(s) ==
  LET b == Unsigned(s)
      dot == IF Dots(b) = {} THEN Len(b) + 1 ELSE CHOOSE k \in Dots(b) : TRUE
      whole == SubSeq(b, 1, dot - 1)
      frac == SubSeq(b, dot + 1, Len(b))
      mag == DigitsValue(whole) * Scale
             + DigitsValue(frac) * (10 ^ (FracDigits - Len(frac)))
  IN IF s # <<>> /\ s[1] = "-" THEN 0 - mag ELSE mag

\* f"{x:.1f}" for x >= 0: tenths, rounded to nearest, exact ties to even
Format1f(x) ==
  LET unit == Scale \div 10
      q == x \div unit
      r == x % unit
  IN IF 2 * r > unit \/ (2 * r = unit /\ q % 2 = 1) THEN q + 1 ELSE q

\* abs() left out
Abs_missing(x) == x

Abs(x) == IF x < 0 THEN 0 - x ELSE x

\* A value that may be None is the set of what it holds: None is the empty
\* set, any other value v is {v}.
None == {}
Some(v) == {v}
Value(o) == CHOOSE v \in o : TRUE

\* float("inf"): distances are never negative and the program does no
\* arithmetic on the sentinel, so it is written as a negative distance
Inf == 0 - 1

VARIABLES
  G,                  \* the module-level graph
  start_var, end_var, \* the two StringVars behind the read-only comboboxes
  battery_entry,      \* text of the battery entry
  pc,                 \* where the program is
  dialog,             \* the messagebox on screen ("" when none)
  start, end, battery_capacity,   \* arguments of calculate_path
  pq, visited,        \* dijkstra's frontier and visited set
  total_distance, path,           \* what dijkstra returned
  i, remaining_battery, total_cost, charging_plan,  \* the charging loop
  result              \* what calculate_path returned

vars == <<G, start_var, end_var, battery_entry, pc, dialog, start, end,
          battery_capacity, pq, visited, total_distance, path, i,
          remaining_battery, total_cost, charging_plan, result>>

gui == <<start_var, end_var, battery_entry>>
args == <<start, end, battery_capacity>>
frontier == <<pq, visited>>
route == <<total_distance, path>>
sim == <<i, remaining_battery, total_cost, charging_plan>>

\* ---- the graphs and inputs the planner is run on ----
GenCities == {"Goa", "Mumbai", "Nashik", "Pune"}

Roads == {r \in SUBSET GenCities : Cardinality(r) = 2}

\* the graph the add_edge loop builds from a set of roads with distances
GraphOf(rs, w) ==
  [n \in UNION rs |-> [m \in {m \in UNION rs : {n, m} \in rs} |-> w[{n, m}]]]

DrawnGraphs ==
  UNION { {GraphOf(rs, w) : w \in [rs -> 1..MaxDist]} :
          rs \in {rs \in SUBSET Roads : Cardinality(rs) <= MaxEdges} }

\* capacities handed to calculate_path directly, in hundredths of a unit
CoreCapacities ==
  {h * (Scale \div 100) : h \in {-100, 0, 44, 100, 140, 200, 300, 40000}}

\* the four names find_route unpacks the result into, before the call
NoResult == [path |-> None, total_distance |-> None, total_cost |-> None,
             charging_plan |-> None]

\* ---- initial states ----
Locals ==
  /\ pq = {} /\ visited = {}
  /\ total_distance = 0 /\ path = <<>>
  /\ i = 0 /\ remaining_battery = 0 /\ total_cost = 0 /\ charging_plan = <<>>
  /\ result = NoResult

\* the window after GUI setup, waiting in root.mainloop()
Init ==
  /\ G = Dataset
  /\ start_var = "" /\ end_var = "" /\ battery_entry = <<>>
  /\ pc = "idle" /\ dialog = ""
  /\ start = "" /\ end = "" /\ battery_capacity = 0
  /\ Locals

\* a call calculate_path(start, end, battery_capacity) on some graph
InitCore ==
  /\ G \in {Dataset} \cup DrawnGraphs
  /\ start_var = "" /\ end_var = "" /\ battery_entry = <<>>
  /\ pc = "calculate_path" /\ dialog = ""
  /\ start \in GenCities \cup Nodes(G)
  /\ end \in GenCities \cup Nodes(G)
  /\ battery_capacity \in CoreCapacities
  /\ Locals

\* ---- the controls ----
\* picking a value in the read-only start combobox (values=city_list)
SelectStart(c) ==
  /\ pc = "idle"
  /\ c \in Nodes(G)
  /\ start_var' = c
  /\ UNCHANGED <<G, end_var, battery_entry, pc, dialog, args, frontier, route, sim, result>>

SelectEnd(c) ==
  /\ pc = "idle"
  /\ c \in Nodes(G)
  /\ end_var' = c
  /\ UNCHANGED <<G, start_var, battery_entry, pc, dialog, args, frontier, route, sim, result>>

\* typing a character at the end of the battery entry
TypeKey(ch) ==
  /\ pc = "idle"
  /\ Len(battery_entry) < MaxLen
  /\ battery_entry' = Append(battery_entry, ch)
  /\ UNCHANGED <<G, start_var, end_var, pc, dialog, args, frontier, route, sim, result>>

Backspace ==
  /\ pc = "idle"
  /\ battery_entry # <<>>
  /\ battery_entry' = SubSeq(battery_entry, 1, Len(battery_entry) - 1)
  /\ UNCHANGED <<G, start_var, end_var, pc, dialog, args, frontier, route, sim, result>>

\* ---- find_route ----
\* float() raises ValueError: error box, return
find_route_ValueError ==
  /\ pc = "idle"
  /\ ~IsFloatText(battery_entry)
  /\ dialog' = "Please enter a valid battery capacity (number)."
  /\ pc' = "dialog"
  /\ UNCHANGED <<G, gui, args, frontier, route, sim, result>>

\* start == end: error box, return
find_route_same ==
  /\ pc = "idle"
  /\ IsFloatText(battery_entry)
  /\ start_var = end_var
  /\ dialog' = "Start and destination cities cannot be the same."
  /\ pc' = "dialog"
  /\ UNCHANGED <<G, gui, args, frontier, route, sim, result>>

\* the call calculate_path(start, end, battery_capacity)
find_route_call ==
  /\ pc = "idle"
  /\ IsFloatText(battery_entry)
  /\ start_var # end_var
  /\ start' = start_var
  /\ end' = end_var
  /\ battery_capacity' = ParseFloat(battery_entry)
  /\ pc' = "calculate_path"
  /\ UNCHANGED <<G, gui, dialog, frontier, route, sim, result>>

\* the user closes the error box and find_route returns to the main loop
DismissDialog ==
  /\ pc = "dialog"
  /\ dialog' = ""
  /\ pc' = "idle"
  /\ UNCHANGED <<G, gui, args, frontier, route, sim, result>>

\* calculate_path has returned: "if not path: return", or the route is shown
find_route_return ==
  /\ pc = "return"
  /\ pc' = "idle"
  /\ dialog' = ""
  /\ start' = "" /\ end' = "" /\ battery_capacity' = 0
  /\ result' = NoResult
  /\ UNCHANGED <<G, gui, frontier, route, sim>>

\* an uncaught exception unwinds to Tk, which reports it and keeps running
report_callback_exception ==
  /\ pc = "exception"
  /\ pc' = "idle"
  /\ dialog' = ""
  /\ start' = "" /\ end' = "" /\ battery_capacity' = 0
  /\ UNCHANGED <<G, gui, frontier, route, sim, result>>

\* ---- dijkstra ----
\* pq = [(0, start, [])]; visited = set()
dijkstra_init ==
  /\ pc = "calculate_path"
  /\ pq' = {<<0, start, <<>>>>}
  /\ visited' = {}
  /\ pc' = "dijkstra"
  /\ UNCHANGED <<G, gui, dialog, args, route, sim, result>>

\* popped node already visited: continue
dijkstra_continue ==
  /\ pc = "dijkstra"
  /\ pq # {}
  /\ LET top == heappop(pq) IN
       /\ top[2] \in visited
       /\ pq' = pq \ {top}
  /\ UNCHANGED <<G, gui, pc, dialog, args, visited, route, sim, result>>

\* popped node is the end: return cost, path
dijkstra_return ==
  /\ pc = "dijkstra"
  /\ pq # {}
  /\ LET top == heappop(pq) IN
       /\ top[2] \notin visited
       /\ top[2] = end
       /\ visited' = visited \cup {top[2]}
       /\ pq' = pq \ {top}
       /\ total_distance' = top[1]
       /\ path' = Append(top[3], top[2])
  /\ pc' = "check"
  /\ UNCHANGED <<G, gui, dialog, args, sim, result>>

\* the pushes with the road's distance alone as the cost
Pushes_distance_only(graph, seen, cost, node, newpath) ==
  {<<graph[node][neighbor], neighbor, newpath>> :
     neighbor \in {m \in DOMAIN graph[node] : m \notin seen}}

\* the pushes of one expansion: every neighbour not yet visited
Pushes(graph, seen, cost, node, newpath) ==
  {<<cost + graph[node][neighbor], neighbor, newpath>> :
     neighbor \in {m \in DOMAIN graph[node] : m \notin seen}}

\* popped node is new and not the end: push its unvisited neighbours
dijkstra_expand ==
  /\ pc = "dijkstra"
  /\ pq # {}
  /\ LET top == heappop(pq) IN
       /\ top[2] \notin visited
       /\ top[2] # end
       /\ top[2] \in Nodes(G)
       /\ visited' = visited \cup {top[2]}
       /\ pq' = (pq \ {top})
                \cup Pushes(G, visited', top[1], top[2], Append(top[3], top[2]))
  /\ UNCHANGED <<G, gui, pc, dialog, args, route, sim, result>>

\* graph[node] on a node the graph does not have: KeyError
dijkstra_KeyError ==
  /\ pc = "dijkstra"
  /\ pq # {}
  /\ LET top == heappop(pq) IN
       /\ top[2] \notin visited
       /\ top[2] # end
       /\ top[2] \notin Nodes(G)
  /\ pq' = {}
  /\ visited' = {}
  /\ pc' = "exception"
  /\ UNCHANGED <<G, gui, dialog, args, route, sim, result>>

\* the heap is empty: return float("inf"), []
dijkstra_exhausted ==
  /\ pc = "dijkstra"
  /\ pq = {}
  /\ total_distance' = Inf
  /\ path' = <<>>
  /\ pc' = "check"
  /\ UNCHANGED <<G, gui, dialog, args, frontier, sim, result>>

\* ---- calculate_path ----
\* dist = G[path[i]][path[i + 1]]["distance"], in 1/Scale units
LegDist(graph, p, k) == graph[p[k + 1]][p[k + 2]] * Scale

\* one charging stop as it is written into the plan
ChargingStop(city, energy) ==
  [city |-> city, units |-> Format1f(energy), price |-> charging_prices[city]]

\* if not path: error box, return None, None, None, None
calculate_path_no_path ==
  /\ pc = "check"
  /\ path = <<>>
  /\ dialog' = "No path found between selected cities!"
  /\ result' = [path |-> None, total_distance |-> None, total_cost |-> None,
                charging_plan |-> None]
  /\ pq' = {} /\ visited' = {}
  /\ total_distance' = 0
  /\ pc' = "return"
  /\ UNCHANGED <<G, gui, args, path, sim>>

\* the simulation entered without the "if not path" check
calculate_path_init_unchecked ==
  /\ pc = "check"
  /\ remaining_battery' = battery_capacity
  /\ total_cost' = 0
  /\ charging_plan' = <<>>
  /\ i' = 0
  /\ pq' = {} /\ visited' = {}
  /\ pc' = "loop"
  /\ UNCHANGED <<G, gui, dialog, args, route, result>>

\* remaining_battery = battery_capacity; total_cost = 0; charging_plan = []
calculate_path_init ==
  /\ pc = "check"
  /\ path # <<>>
  /\ remaining_battery' = battery_capacity
  /\ total_cost' = 0
  /\ charging_plan' = <<>>
  /\ i' = 0
  /\ pq' = {} /\ visited' = {}
  /\ pc' = "loop"
  /\ UNCHANGED <<G, gui, dialog, args, route, result>>

\* the recharge taken when dist >= remaining_battery
calculate_path_recharge_ge ==
  /\ pc = "loop"
  /\ i < Len(path) - 1
  /\ LegDist(G, path, i) >= remaining_battery
  /\ total_cost' = total_cost
        + (battery_capacity - remaining_battery) * charging_prices[path[i + 1]]
  /\ charging_plan' = Append(charging_plan,
        ChargingStop(path[i + 1], battery_capacity - remaining_battery))
  /\ remaining_battery' = battery_capacity
  /\ pc' = "drive"
  /\ UNCHANGED <<G, gui, dialog, args, frontier, route, i, result>>

\* the recharge that records the stop and leaves the battery as it was
calculate_path_recharge_no_refill ==
  /\ pc = "loop"
  /\ i < Len(path) - 1
  /\ LegDist(G, path, i) > remaining_battery
  /\ total_cost' = total_cost
        + (battery_capacity - remaining_battery) * charging_prices[path[i + 1]]
  /\ charging_plan' = Append(charging_plan,
        ChargingStop(path[i + 1], battery_capacity - remaining_battery))
  /\ pc' = "drive"
  /\ UNCHANGED <<G, gui, dialog, args, frontier, route, i, remaining_battery, result>>

\* dist > remaining_battery: charge fully at path[i]
calculate_path_recharge ==
  /\ pc = "loop"
  /\ i < Len(path) - 1
  /\ LegDist(G, path, i) > remaining_battery
  /\ total_cost' = total_cost
        + (battery_capacity - remaining_battery) * charging_prices[path[i + 1]]
  /\ charging_plan' = Append(charging_plan,
        ChargingStop(path[i + 1], battery_capacity - remaining_battery))
  /\ remaining_battery' = battery_capacity
  /\ pc' = "drive"
  /\ UNCHANGED <<G, gui, dialog, args, frontier, route, i, result>>

\* remaining_battery -= dist, and on to the next leg
calculate_path_drive ==
  /\ i < Len(path) - 1
  /\ \/ pc = "drive"
     \/ pc = "loop" /\ LegDist(G, path, i) <= remaining_battery
  /\ remaining_battery' = remaining_battery - LegDist(G, path, i)
  /\ i' = i + 1
  /\ pc' = "loop"
  /\ UNCHANGED <<G, gui, dialog, args, frontier, route, total_cost, charging_plan, result>>

\* the destination stop recorded without its cost being added
calculate_path_return_cost_dropped ==
  /\ pc = "loop"
  /\ i = Len(path) - 1
  /\ LET plan == IF remaining_battery < 0
                   THEN Append(charging_plan, ChargingStop(end, Abs(remaining_battery)))
                   ELSE charging_plan
     IN result' = [path |-> Some(path), total_distance |-> Some(total_distance),
                   total_cost |-> Some(total_cost), charging_plan |-> Some(plan)]
  /\ total_distance' = 0 /\ path' = <<>>
  /\ i' = 0 /\ remaining_battery' = 0 /\ total_cost' = 0 /\ charging_plan' = <<>>
  /\ pc' = "return"
  /\ UNCHANGED <<G, gui, dialog, args, frontier>>

\* after the loop: charge at the destination if the battery is negative, return
calculate_path_return ==
  /\ pc = "loop"
  /\ i = Len(path) - 1
  /\ LET cost == IF remaining_battery < 0
                   THEN total_cost + Abs(remaining_battery) * charging_prices[end]
                   ELSE total_cost
         plan == IF remaining_battery < 0
                   THEN Append(charging_plan, ChargingStop(end, Abs(remaining_battery)))
                   ELSE charging_plan
     IN result' = [path |-> Some(path), total_distance |-> Some(total_distance),
                   total_cost |-> Some(cost), charging_plan |-> Some(plan)]
  /\ total_distance' = 0 /\ path' = <<>>
  /\ i' = 0 /\ remaining_battery' = 0 /\ total_cost' = 0 /\ charging_plan' = <<>>
  /\ pc' = "return"
  /\ UNCHANGED <<G, gui, dialog, args, frontier>>

\* ---- specifications ----
NextCore ==
  \/ dijkstra_init
  \/ dijkstra_continue
  \/ dijkstra_return
  \/ dijkstra_expand
  \/ dijkstra_KeyError
  \/ dijkstra_exhausted
  \/ calculate_path_no_path
  \/ calculate_path_init
  \/ calculate_path_recharge
  \/ calculate_path_drive
  \/ calculate_path_return

Next ==
  \/ \E c \in Nodes(G) : SelectStart(c)
  \/ \E c \in Nodes(G) : SelectEnd(c)
  \/ \E ch \in Alphabet : TypeKey(ch)
  \/ Backspace
  \/ find_route_ValueError
  \/ find_route_same
  \/ find_route_call
  \/ DismissDialog
  \/ find_route_return
  \/ report_callback_exception
  \/ NextCore

\* the program: the window on the hard-coded map
Spec == Init /\ [][Next]_vars

\* calculate_path as a function of the graph and its arguments
SpecCore == InitCore /\ [][NextCore]_vars

\* ---- graph notions the properties are stated with ----
\* the cities reachable from s over roads of g
RECURSIVE ReachFrom(_, _)
ReachFrom(g, seen) ==
  LET more == seen \cup UNION {DOMAIN g[n] : n \in seen \cap DOMAIN g}
  IN IF more = seen THEN seen ELSE ReachFrom(g, more)

Connected(g, s, t) == s \in DOMAIN g /\ t \in ReachFrom(g, {s})

\* summed road distances along a sequence of cities
RECURSIVE PathDistance(_, _)
PathDistance(g, p) ==
  IF Len(p) < 2 THEN 0
  ELSE PathDistance(g, SubSeq(p, 1, Len(p) - 1)) + g[p[Len(p) - 1]][p[Len(p)]]

\* every sequence of distinct cities of g from s to t along roads of g
RECURSIVE Extensions(_, _, _)
Extensions(g, p, t) ==
  IF p[Len(p)] = t THEN {p}
  ELSE UNION {Extensions(g, Append(p, m), t) :
                m \in {m \in DOMAIN g[p[Len(p)]] : \A k \in 1..Len(p) : p[k] # m}}

AllPaths(g, s, t) == Extensions(g, <<s>>, t)

IsRoute(g, p, s, t) ==
  /\ p # <<>>
  /\ p[1] = s
  /\ p[Len(p)] = t
  /\ \A k \in 1..(Len(p) - 1) : p[k] \in DOMAIN g /\ p[k + 1] \in DOMAIN g[p[k]]

\* dijkstra has just returned to calculate_path
Returned == pc = "check"

\* C1: for distinct connected cities, the distance dijkstra returns is the
\* minimum of the summed road distances over all paths from start to end: some
\* path has that sum and no path has a smaller one.
C1_ShortestDistance ==
  (Returned /\ start # end /\ Connected(G, start, end)) =>
    /\ path # <<>>
    /\ \E p \in AllPaths(G, start, end) : PathDistance(G, p) = total_distance
    /\ \A p \in AllPaths(G, start, end) : PathDistance(G, p) >= total_distance

\* a run where the direct road is not the shortest way
C1_Witness ==
  /\ Returned
  /\ start # end
  /\ Connected(G, start, end)
  /\ end \in DOMAIN G[start]
  /\ G[start][end] > total_distance
  /\ Len(path) >= 3

\* C2: the path dijkstra returns starts at start, ends at end, follows roads
\* of the graph, and its roads sum to the distance returned with it; the
\* pair calculate_path returns is that same path and distance.
C2_PathMatchesDistance ==
  /\ (pc \in {"check", "loop", "drive"} /\ path # <<>>) =>
       /\ IsRoute(G, path, start, end)
       /\ PathDistance(G, path) = total_distance
  /\ (pc = "return" /\ result.path # None) =>
       /\ IsRoute(G, Value(result.path), start, end)
       /\ PathDistance(G, Value(result.path)) = Value(result.total_distance)

C2_Witness ==
  /\ pc = "return"
  /\ result.path # None
  /\ Len(Value(result.path)) >= 3
  /\ Value(result.total_distance) = PathDistance(G, Value(result.path))

\* C3: when start and end are cities of the graph in different components,
\* dijkstra empties the heap after visiting the whole component of start and
\* returns (inf, []); calculate_path returns four Nones, the charging loop
\* never runs, no stop is recorded and no cost is accumulated.
Disconnected == start \in Nodes(G) /\ end \in Nodes(G) /\ ~Connected(G, start, end)

C3_NoRoute ==
  Disconnected =>
    /\ pc \notin {"loop", "drive"}
    /\ Returned =>
         /\ pq = {}
         /\ visited = ReachFrom(G, {start})
         /\ path = <<>>
         /\ total_distance = Inf
    /\ pc = "return" =>
         /\ result = [path |-> None, total_distance |-> None,
                      total_cost |-> None, charging_plan |-> None]
         /\ charging_plan = <<>>
         /\ total_cost = 0

C3_Witness == Disconnected /\ pc = "return" /\ result.path = None

\* ---- the charging simulation ----
\* calculate_path has returned a route (not the four Nones)
RouteReturned == pc = "return" /\ result.path # None

\* a step of the loop that records a stop at path[i]
RechargeStep == pc = "loop" /\ pc' = "drive"

\* a step that subtracts a leg from the battery
DriveStep == pc \in {"loop", "drive"} /\ i' = i + 1

\* the step that leaves the loop, makes the destination check and returns
ReturnStep == pc = "loop" /\ pc' = "return"

Last(q) == q[Len(q)]

\* C4: for distinct connected cities and a capacity of at least the total
\* distance of the path, the recharge branch is never taken, the battery is
\* never negative, and calculate_path returns an empty plan and cost 0.
C4_EnoughCapacity ==
  /\ (pc \in {"loop", "drive"} /\ start # end
        /\ battery_capacity >= total_distance * Scale) =>
       /\ pc # "drive"
       /\ charging_plan = <<>>
       /\ total_cost = 0
       /\ remaining_battery >= 0
  /\ (RouteReturned /\ start # end
        /\ battery_capacity >= Value(result.total_distance) * Scale) =>
       /\ result.charging_plan = Some(<<>>)
       /\ result.total_cost = Some(0)

\* a route of two legs or more driven on one charge
C4_Witness ==
  /\ RouteReturned
  /\ Len(Value(result.path)) >= 3
  /\ battery_capacity >= Value(result.total_distance) * Scale
  /\ result.charging_plan = Some(<<>>)

\* C5: for distinct connected cities and a positive capacity, every stop that
\* is recorded (a full recharge of capacity - remaining_battery in the loop,
\* abs(remaining_battery) at the destination) charges more than 0 and at
\* most battery_capacity.
C5_StopEnergyInRange ==
  [][ battery_capacity > 0 =>
        /\ RechargeStep =>
             /\ battery_capacity - remaining_battery > 0
             /\ battery_capacity - remaining_battery <= battery_capacity
        /\ (ReturnStep /\ remaining_battery < 0) =>
             /\ Abs(remaining_battery) > 0
             /\ Abs(remaining_battery) <= battery_capacity ]_vars

\* the cost of the stops as they are written in a plan: units are tenths of
\* a unit and prices tenths of a rupee, so the sum counts 1/100 rupees
RECURSIVE RecordedCost(_)
RecordedCost(plan) ==
  IF plan = <<>> THEN 0
  ELSE RecordedCost(SubSeq(plan, 1, Len(plan) - 1))
       + Last(plan).units * Last(plan).price

\* C6 as stated: at the return of calculate_path with a route, total_cost is
\* the sum over the stops recorded in the charging plan of the stop's energy
\* amount times the price of the stop's city.
C6_CostIsSumOfRecordedStops ==
  RouteReturned =>
    Value(result.total_cost) * 10 = RecordedCost(Value(result.charging_plan)) * Scale

\* C6 amended: every stop adds the unrounded energy it charges times the
\* price of its city to total_cost, the cost changes in no other step, and
\* when the capacity is a whole number (so that writing an amount with one
\* decimal does not change it) total_cost is the sum over the recorded stops
\* of the recorded amount times the price.
C6_CostIsSumOfStopCosts ==
  /\ [](RouteReturned /\ battery_capacity % Scale = 0 =>
          Value(result.total_cost) * 10
            = RecordedCost(Value(result.charging_plan)) * Scale)
  /\ [][ /\ RechargeStep =>
              /\ Len(charging_plan') = Len(charging_plan) + 1
              /\ Last(charging_plan').city = path[i + 1]
              /\ total_cost' = total_cost
                   + (battery_capacity - remaining_battery) * Last(charging_plan').price
         /\ DriveStep => (charging_plan' = charging_plan /\ total_cost' = total_cost)
         /\ (ReturnStep /\ remaining_battery < 0) =>
              /\ Len(Value(result'.charging_plan)) = Len(charging_plan) + 1
              /\ SubSeq(Value(result'.charging_plan), 1, Len(charging_plan)) = charging_plan
              /\ Last(Value(result'.charging_plan)).city = end
              /\ Value(result'.total_cost) = total_cost
                   + Abs(remaining_battery) * Last(Value(result'.charging_plan)).price
         /\ (ReturnStep /\ remaining_battery >= 0) =>
              /\ result'.charging_plan = Some(charging_plan)
              /\ result'.total_cost = Some(total_cost) ]_vars

\* a whole-number capacity, a recharge on the way and one at the destination
C6_Witness ==
  /\ RouteReturned
  /\ battery_capacity > 0
  /\ battery_capacity % Scale = 0
  /\ Len(Value(result.charging_plan)) >= 2
  /\ Value(result.total_cost) > 0
  /\ Last(Value(result.charging_plan)).city = end

\* C7: find_route calls calculate_path only with a capacity that parsed to a
\* strictly positive number and with a start city different from the end city.
C7_InvalidInputRejected ==
  pc = "calculate_path" => (battery_capacity > 0 /\ start # end)

\* C8: picking from the two comboboxes (or leaving one unset) and pressing the
\* button never calls calculate_path with a start or end that is not a city
\* of the graph.
C8_OnlyKnownCities ==
  pc = "calculate_path" => (start \in Nodes(G) /\ end \in Nodes(G))

\* C9: on the hard-coded map, calculate_path("Mumbai", "Goa", 400) returns the
\* path [Mumbai, Goa], distance 580, cost 360 and the plan
\* [Mumbai: 0.0 units at 1.8, Goa: 180.0 units at 2.0].
MumbaiGoa400 ==
  /\ G = Dataset
  /\ start = "Mumbai" /\ end = "Goa"
  /\ battery_capacity = 400 * Scale

C9_MumbaiGoa ==
  (MumbaiGoa400 /\ pc = "return") =>
    result = [path |-> Some(<<"Mumbai", "Goa">>),
              total_distance |-> Some(580),
              total_cost |-> Some(360 * 10 * Scale),
              charging_plan |-> Some(
                << [city |-> "Mumbai", units |-> 0, price |-> 18],
                   [city |-> "Goa", units |-> 1800, price |-> 20] >>)]

C9_Witness == MumbaiGoa400 /\ pc = "return" /\ battery_entry = <<"4", "0", "0">>

\* C10: for a positive capacity, the battery is never negative when a leg is
\* subtracted from it: when it is negative after a leg, the very next step
\* records a stop at the city just reached (the full recharge of the next
\* iteration, or the destination check after the last leg); and the
\* destination stop is recorded exactly when the last leg is longer than the
\* capacity.
C10_NegativeBatteryResolved ==
  [][ battery_capacity > 0 =>
        /\ DriveStep => remaining_battery >= 0
        /\ (pc = "loop" /\ remaining_battery < 0) =>
             \/ /\ RechargeStep
                /\ Len(charging_plan') = Len(charging_plan) + 1
                /\ Last(charging_plan').city = path[i + 1]
             \/ /\ ReturnStep
                /\ Len(Value(result'.charging_plan)) = Len(charging_plan) + 1
                /\ Last(Value(result'.charging_plan)).city = end
                /\ path[i + 1] = end
        /\ (ReturnStep /\ Len(path) >= 2) =>
             (Len(Value(result'.charging_plan)) = Len(charging_plan) + 1
                <=> LegDist(G, path, Len(path) - 2) > battery_capacity) ]_vars

\* the battery is negative on arrival at a city that is not the destination
C10_Witness ==
  /\ pc = "loop"
  /\ battery_capacity > 0
  /\ remaining_battery < 0
  /\ i >= 1
  /\ i < Len(path) - 1

====
